---- MODULE Spec2Model ----
(***************************************************************************)
(* Model of src/exe/feature.cc: the command entry points that validate     *)
(* the camera configuration, resolve the image list, create the Qt         *)
(* application that owns the OpenGL context, construct one worker Thread    *)
(* and run it either directly or on the OpenGL context thread.             *)
(*                                                                         *)
(* One behaviour is one invocation of one entry point.  The collaborators   *)
(* that live outside feature.cc (camera model registry, CSVToVector,        *)
(* ReadTextFileLines, Thread, RunThreadWithOpenGLContext) are modelled by   *)
(* their contract.                                                         *)
(***************************************************************************)
EXTENDS Integers, Sequences, FiniteSets, TLC

VARIABLES
    entry,            \* the entry point invoked (fixed during a behaviour)
    kUseOpenGL,       \* build-time switch of util/opengl_utils.h (fixed)
    argv,             \* the command line option values (fixed)
    fs,               \* the files and directories the invocation can read (fixed)
    pc,               \* position of the invoking thread
    options,          \* OptionManager after Parse
    image_list_path,  \* local std::string
    match_list_path,  \* local std::string
    match_type,       \* local std::string
    reader_options,   \* ImageReaderOptions copy
    verified,         \* value returned by the VerifyCameraParams call
    app,              \* std::unique_ptr<QApplication>
    worker,           \* the Thread object of the entry point
    opengl_thread,    \* the thread spawned by RunThreadWithOpenGLContext
    status,           \* the value returned by the entry point
    log,              \* the events of the invocation, in order
    previous          \* what an earlier invocation left (SpecPair only)

vars == <<entry, kUseOpenGL, argv, fs, pc, options, image_list_path,
          match_list_path, match_type, reader_options, verified, app, worker,
          opengl_thread, status, log, previous>>

(***************************************************************************)
(* Bounds of the model.                                                    *)
(***************************************************************************)
\* longest camera parameter string given to VerifyCameraParams in SpecVerify
MaxParamsLen == 7
\* most lines an image list file holds
MaxLines == 1

(***************************************************************************)
(* Strings are sequences of one-character strings.                         *)
(***************************************************************************)
Digits == {"1"}
Alphabet == Digits \cup {",", "x"}

RECURSIVE StringsOfLen(_)
StringsOfLen(n) ==
    IF n = 0 THEN {<<>>}
    ELSE {Append(s, c) : s \in StringsOfLen(n - 1), c \in Alphabet}

StringsUpTo(n) == UNION {StringsOfLen(k) : k \in 0..n}

(***************************************************************************)
(* Camera model registry (base/camera_models.h).                           *)
(***************************************************************************)
CameraModels == {"SIMPLE_PINHOLE", "PINHOLE"}

ExistsCameraModelWithName(name) == name \in CameraModels

CameraModelNameToId(name) ==
    CASE name = "SIMPLE_PINHOLE" -> 0
      [] name = "PINHOLE" -> 1
      [] OTHER -> -1

CameraModelNumParams(model_id) ==
    CASE model_id = 0 -> 3
      [] model_id = 1 -> 4
      [] OTHER -> 0

CameraModelVerifyParams(model_id, params) ==
    /\ model_id \in {0, 1}
    /\ Len(params) = CameraModelNumParams(model_id)

(***************************************************************************)
(* CSVToVector<double> (util/misc.h): split at the commas, skip the empty  *)
(* elements, convert each element by its leading digits; an element that   *)
(* does not start with a number makes the whole result empty.              *)
(***************************************************************************)
RECURSIVE StringSplit(_, _)
StringSplit(s, cur) ==
    IF s = <<>> THEN <<cur>>
    ELSE IF Head(s) = "," THEN <<cur>> \o StringSplit(Tail(s), <<>>)
    ELSE StringSplit(Tail(s), Append(cur, Head(s)))

RECURSIVE LeadingNumber(_, _)
LeadingNumber(elem, acc) ==
    IF elem = <<>> \/ Head(elem) \notin Digits THEN acc
    ELSE LeadingNumber(Tail(elem), 10 * acc + 1)

IsNumeric(elem) == elem # <<>> /\ Head(elem) \in Digits

CSVToVector(csv) ==
    LET elems == SelectSeq(StringSplit(csv, <<>>), LAMBDA e : e # <<>>)
    IN  IF \E i \in DOMAIN elems : ~IsNumeric(elems[i]) THEN <<>>
        ELSE [i \in DOMAIN elems |-> LeadingNumber(elems[i], 0)]

(***************************************************************************)
(* VerifyCameraParams, feature.cc:48-64.                                   *)
(***************************************************************************)
\* VerifyCameraParams without the existence check at feature.cc:50-53
VerifyCameraParamsDropExists(camera_model, params) ==
    LET camera_params == CSVToVector(params)
        camera_model_id == CameraModelNameToId(camera_model)
    IN  ~(Len(camera_params) > 0 /\
          ~CameraModelVerifyParams(camera_model_id, camera_params))

\* VerifyCameraParams testing the string, not the parsed vector, at feature.cc:58
VerifyCameraParamsStringTest(camera_model, params) ==
    IF ~ExistsCameraModelWithName(camera_model) THEN FALSE
    ELSE LET camera_params == CSVToVector(params)
             camera_model_id == CameraModelNameToId(camera_model)
         IN  ~(Len(params) > 0 /\
               ~CameraModelVerifyParams(camera_model_id, camera_params))

VerifyCameraParams(camera_model, params) ==
    IF ~ExistsCameraModelWithName(camera_model) THEN FALSE
    ELSE LET camera_params == CSVToVector(params)
             camera_model_id == CameraModelNameToId(camera_model)
         IN  ~(Len(camera_params) > 0 /\
               ~CameraModelVerifyParams(camera_model_id, camera_params))

\* the bool a call returned, as kept in the variable verified
BoolName(b) == IF b THEN "true" ELSE "false"

\* what VerifyCameraParams writes to std::cerr
VerifyCameraParamsCerr(camera_model, params) ==
    IF ~ExistsCameraModelWithName(camera_model)
    THEN <<"ERROR: Camera model does not exist">>
    ELSE IF ~VerifyCameraParams(camera_model, params)
    THEN <<"ERROR: Invalid camera parameters">>
    ELSE <<>>

(***************************************************************************)
(* The inputs of an invocation.                                            *)
(***************************************************************************)
EntryPoints ==
    {"RunFeatureExtractor", "RunFeatureImporter", "RunExhaustiveMatcher",
     "RunMatchesImporter", "RunSequentialMatcher", "RunSpatialMatcher",
     "RunTransitiveMatcher", "RunVocabTreeMatcher"}

DirectMatchers ==
    {"RunExhaustiveMatcher", "RunSequentialMatcher", "RunSpatialMatcher",
     "RunTransitiveMatcher", "RunVocabTreeMatcher"}

\* an option the command line does not give
Unset == "<unset>"

CameraModelNames == CameraModels \cup {"FISHBOWL"}

\* camera parameter strings tried by the entry points: none, three values,
\* four values, two values, a lone comma, a word
ParamsSamples ==
    { <<>>,
      <<"1", ",", "1", ",", "1">>,
      <<"1", ",", "1", ",", "1", ",", "1">>,
      <<"1", ",", "1">>,
      <<",">>,
      <<"x">> }

MatchTypeArgs == {Unset, "pairs", "raw", "inliers", "bogus"}

MatchListPaths == {"matches.txt", "pairs.txt"}

RECURSIVE FilesOfLen(_, _)
FilesOfLen(n, line) ==
    IF n = 0 THEN {<<>>}
    ELSE {Append(f, line) : f \in FilesOfLen(n - 1, line)}

Files(line) == UNION {FilesOfLen(k, line) : k \in 0..MaxLines}

NoArgs ==
    [use_gpu |-> FALSE, camera_model |-> "", camera_params |-> <<>>,
     image_list_path |-> "", import_path |-> "", match_list_path |-> "",
     match_type |-> Unset]

NoFiles == [image_list_file |-> <<>>, image_dir |-> {}, match_list_file |-> <<>>]

ImageArgs ==
    {[NoArgs EXCEPT !.use_gpu = g, !.camera_model = m, !.camera_params = p,
                    !.image_list_path = l] :
        g \in BOOLEAN, m \in CameraModelNames, p \in ParamsSamples,
        l \in {"", "images.txt"}}

ImageFiles ==
    {[NoFiles EXCEPT !.image_list_file = f, !.image_dir = d] :
        f \in Files("a.jpg"), d \in {{}, {"a.jpg"}}}

ArgsOf(e) ==
    CASE e = "RunFeatureExtractor" -> ImageArgs
      [] e = "RunFeatureImporter" ->
            {[a EXCEPT !.import_path = "features/"] : a \in ImageArgs}
      [] e = "RunMatchesImporter" ->
            {[NoArgs EXCEPT !.use_gpu = g, !.match_list_path = l, !.match_type = t] :
                g \in BOOLEAN, l \in MatchListPaths, t \in MatchTypeArgs}
      [] OTHER -> {[NoArgs EXCEPT !.use_gpu = g] : g \in BOOLEAN}

FilesOf(e) ==
    CASE e \in {"RunFeatureExtractor", "RunFeatureImporter"} -> ImageFiles
      [] e = "RunMatchesImporter" ->
            {[NoFiles EXCEPT !.match_list_file = f] : f \in Files("a.jpg b.jpg")}
      [] OTHER -> {NoFiles}

(***************************************************************************)
(* The objects of an invocation.                                           *)
(***************************************************************************)
NoWorker ==
    [kind |-> "null", state |-> "null", thread |-> "none", image_list |-> <<>>,
     import_path |-> "", match_list_path |-> "", verify_matches |-> FALSE,
     use_gpu |-> FALSE, alive |-> FALSE]

\* no earlier invocation
NoPrevious == [status |-> "none", worker |-> NoWorker, log |-> <<>>]

\* OptionManager before Parse
NoOptions == [use_gpu |-> FALSE, camera_model |-> "", camera_params |-> <<>>]

Terminal == {"Completed", "Failed"}

InitLocals ==
    /\ options = NoOptions
    /\ image_list_path = ""
    /\ match_list_path = ""
    /\ match_type = IF entry = "RunMatchesImporter" THEN "pairs" ELSE ""
    /\ reader_options = [image_list |-> <<>>]
    /\ verified = "none"
    /\ app = "null"
    /\ worker = NoWorker
    /\ opengl_thread = "none"
    /\ status = "none"
    /\ log = <<>>
    /\ previous = NoPrevious

Init ==
    /\ entry \in EntryPoints
    /\ kUseOpenGL \in BOOLEAN
    /\ argv \in ArgsOf(entry)
    /\ fs \in FilesOf(entry)
    /\ pc = "parse"
    /\ InitLocals

Inputs == <<entry, kUseOpenGL, argv, fs, previous>>

(***************************************************************************)
(* Collaborators outside feature.cc.                                       *)
(***************************************************************************)
\* util/misc.h: the lines of the text file at the path
ReadTextFileLines(path) == fs.image_list_file

\* util/threading.h, Thread::Start() called by thread t
ThreadStart(w, t) == [w EXCEPT !.state = "Running", !.thread = t]

\* util/threading.h: the Thread constructed by an entry point
NewThread(kind, image_list, import_path, list_path, verify, gpu) ==
    [kind |-> kind, state |-> "Created", thread |-> "none",
     image_list |-> image_list, import_path |-> import_path,
     match_list_path |-> list_path, verify_matches |-> verify, use_gpu |-> gpu,
     alive |-> TRUE]

(***************************************************************************)
(* The steps the entry points are made of.  Each names the lines of its    *)
(* first occurrence; the other entry points repeat the same statements.    *)
(***************************************************************************)
\* feature.cc:69-80: option registration, Parse, and the reader options copy
ParseOptions(next) ==
    /\ pc = "parse"
    /\ options' = [use_gpu |-> argv.use_gpu, camera_model |-> argv.camera_model,
                   camera_params |-> argv.camera_params]
    /\ image_list_path' = argv.image_list_path
    /\ match_list_path' = argv.match_list_path
    /\ match_type' = IF argv.match_type = Unset THEN match_type ELSE argv.match_type
    /\ pc' = next
    /\ log' = Append(log, "Parse")
    /\ UNCHANGED <<Inputs, reader_options, verified, app, worker, opengl_thread,
                   status>>

\* ReadImageList without the return at feature.cc:85
ReadImageListNoReturn(next) ==
    /\ pc = "read_list"
    /\ IF image_list_path # ""
       THEN /\ reader_options' = [reader_options EXCEPT
                                    !.image_list = ReadTextFileLines(image_list_path)]
            /\ log' = Append(log, "ReadTextFileLines")
       ELSE UNCHANGED <<reader_options, log>>
    /\ pc' = next
    /\ UNCHANGED <<Inputs, options, image_list_path, match_list_path, match_type,
                   verified, app, worker, opengl_thread, status>>

\* feature.cc:82-87: read the image list, leave with success when it is empty
ReadImageList(next) ==
    /\ pc = "read_list"
    /\ IF image_list_path # ""
       THEN LET lines == ReadTextFileLines(image_list_path)
            IN  /\ reader_options' = [reader_options EXCEPT !.image_list = lines]
                /\ IF lines = <<>>
                   THEN /\ status' = "EXIT_SUCCESS"
                        /\ pc' = "done"
                        /\ log' = log \o <<"ReadTextFileLines", "return">>
                   ELSE /\ pc' = next
                        /\ log' = Append(log, "ReadTextFileLines")
                        /\ UNCHANGED status
       ELSE /\ pc' = next
            /\ UNCHANGED <<reader_options, status, log>>
    /\ UNCHANGED <<Inputs, options, image_list_path, match_list_path, match_type,
                   verified, app, worker, opengl_thread>>

\* feature.cc:89-91: the message only, no return
CheckCameraModel(next) ==
    /\ pc = "check_model"
    /\ log' = IF ~ExistsCameraModelWithName(options.camera_model)
              THEN Append(log, "ERROR: Camera model does not exist")
              ELSE log
    /\ pc' = next
    /\ UNCHANGED <<Inputs, options, image_list_path, match_list_path, match_type,
                   reader_options, verified, app, worker, opengl_thread, status>>

\* VerifyStep without the return at feature.cc:95
VerifyStepNoReturn(next) ==
    /\ pc = "verify"
    /\ LET ok == VerifyCameraParams(options.camera_model, options.camera_params)
           cerr == VerifyCameraParamsCerr(options.camera_model,
                                          options.camera_params)
       IN  /\ verified' = BoolName(ok)
           /\ log' = log \o cerr \o (IF ok THEN <<"validated">> ELSE <<>>)
    /\ pc' = next
    /\ UNCHANGED <<Inputs, options, image_list_path, match_list_path, match_type,
                   reader_options, app, worker, opengl_thread, status>>

\* feature.cc:93-96: the camera checks, leave with failure when they fail
VerifyStep(next) ==
    /\ pc = "verify"
    /\ LET ok == VerifyCameraParams(options.camera_model, options.camera_params)
           cerr == VerifyCameraParamsCerr(options.camera_model,
                                          options.camera_params)
       IN  /\ verified' = BoolName(ok)
           /\ IF ok
              THEN /\ pc' = next
                   /\ log' = log \o cerr \o <<"validated">>
                   /\ UNCHANGED status
              ELSE /\ status' = "EXIT_FAILURE"
                   /\ pc' = "done"
                   /\ log' = log \o cerr \o <<"return">>
    /\ UNCHANGED <<Inputs, options, image_list_path, match_list_path, match_type,
                   reader_options, app, worker, opengl_thread>>

\* UseGpuContext without the build switch
UseGpuContextIgnoreBuild == options.use_gpu

\* feature.cc:99: the condition under which the QApplication is created
UseGpuContext == options.use_gpu /\ kUseOpenGL

\* the condition at feature.cc:106 without the build switch
UseGpuContextForRunIgnoreBuild == options.use_gpu

\* the condition at feature.cc:106 taken as always true
UseGpuContextForRunAlways == TRUE

\* feature.cc:106: the condition of the execution branch, evaluated again
UseGpuContextForRun == options.use_gpu /\ kUseOpenGL

\* CreateApp that never creates the QApplication
CreateAppSkip(next) ==
    /\ pc = "create_app"
    /\ pc' = next
    /\ UNCHANGED <<Inputs, options, image_list_path, match_list_path, match_type,
                   reader_options, verified, app, worker, opengl_thread, status,
                   log>>

\* feature.cc:98-101
CreateApp(next) ==
    /\ pc = "create_app"
    /\ IF UseGpuContext
       THEN /\ app' = "alive"
            /\ log' = Append(log, "QApplication")
       ELSE UNCHANGED <<app, log>>
    /\ pc' = next
    /\ UNCHANGED <<Inputs, options, image_list_path, match_list_path, match_type,
                   reader_options, verified, worker, opengl_thread, status>>

\* Construct executed twice: a second Thread replaces the first
ConstructTwice(w) ==
    /\ pc = "construct"
    /\ worker' = w
    /\ pc' = IF worker.kind = "null" THEN "construct" ELSE "execute"
    /\ log' = Append(log, "construct")
    /\ UNCHANGED <<Inputs, options, image_list_path, match_list_path, match_type,
                   reader_options, verified, app, opengl_thread, status>>

\* feature.cc:103-104: the constructor call of the entry point's Thread
Construct(w) ==
    /\ pc = "construct"
    /\ worker' = w
    /\ pc' = "execute"
    /\ log' = Append(log, "construct")
    /\ UNCHANGED <<Inputs, options, image_list_path, match_list_path, match_type,
                   reader_options, verified, app, opengl_thread, status>>

\* Execute without the Wait() of feature.cc:110
ExecuteNoWait ==
    /\ pc = "execute"
    /\ IF UseGpuContextForRun
       THEN /\ opengl_thread' = "spawned"
            /\ pc' = "join"
            /\ log' = Append(log, "RunThreadWithOpenGLContext")
            /\ UNCHANGED worker
       ELSE /\ worker' = ThreadStart(worker, "main")
            /\ pc' = "return"
            /\ log' = Append(log, "Start")
            /\ UNCHANGED opengl_thread
    /\ UNCHANGED <<Inputs, options, image_list_path, match_list_path, match_type,
                   reader_options, verified, app, status>>

\* Execute whose direct path waits for a Thread it never started
ExecuteNoStart ==
    /\ pc = "execute"
    /\ IF UseGpuContextForRun
       THEN /\ opengl_thread' = "spawned"
            /\ pc' = "join"
            /\ log' = Append(log, "RunThreadWithOpenGLContext")
            /\ UNCHANGED worker
       ELSE /\ pc' = "wait"
            /\ log' = Append(log, "Wait")
            /\ UNCHANGED <<worker, opengl_thread>>
    /\ UNCHANGED <<Inputs, options, image_list_path, match_list_path, match_type,
                   reader_options, verified, app, status>>

\* feature.cc:106-109: hand the thread to the OpenGL context thread, or Start()
Execute ==
    /\ pc = "execute"
    /\ IF UseGpuContextForRun
       THEN /\ opengl_thread' = "spawned"
            /\ pc' = "join"
            /\ log' = Append(log, "RunThreadWithOpenGLContext")
            /\ UNCHANGED worker
       ELSE /\ worker' = ThreadStart(worker, "main")
            /\ pc' = "wait"
            /\ log' = Append(log, "Start")
            /\ UNCHANGED opengl_thread
    /\ UNCHANGED <<Inputs, options, image_list_path, match_list_path, match_type,
                   reader_options, verified, app, status>>

\* feature.cc:145: Start() without a GPU branch
StartDirect ==
    /\ pc = "execute"
    /\ worker' = ThreadStart(worker, "main")
    /\ pc' = "wait"
    /\ log' = Append(log, "Start")
    /\ UNCHANGED <<Inputs, options, image_list_path, match_list_path, match_type,
                   reader_options, verified, app, opengl_thread, status>>

\* feature.cc:110: Wait() returns once the thread has finished
Wait ==
    /\ pc = "wait"
    /\ worker.state \in Terminal
    /\ pc' = "return"
    /\ log' = Append(log, "Wait")
    /\ UNCHANGED <<Inputs, options, image_list_path, match_list_path, match_type,
                   reader_options, verified, app, worker, opengl_thread, status>>

\* feature.cc:107: RunThreadWithOpenGLContext returns once its thread is done
Join ==
    /\ pc = "join"
    /\ opengl_thread = "finished"
    /\ opengl_thread' = "joined"
    /\ pc' = "return"
    /\ log' = Append(log, "joined")
    /\ UNCHANGED <<Inputs, options, image_list_path, match_list_path, match_type,
                   reader_options, verified, app, worker, status>>

\* feature.cc:113
Return ==
    /\ pc = "return"
    /\ status' = "EXIT_SUCCESS"
    /\ pc' = "unwind_worker"
    /\ log' = Append(log, "return")
    /\ UNCHANGED <<Inputs, options, image_list_path, match_list_path, match_type,
                   reader_options, verified, app, worker, opengl_thread>>

\* feature.cc:114: the Thread, declared last, is destroyed first
DestroyWorker(next) ==
    /\ pc = "unwind_worker"
    /\ IF worker.alive
       THEN /\ worker' = [worker EXCEPT !.alive = FALSE]
            /\ log' = Append(log, "~Thread")
       ELSE UNCHANGED <<worker, log>>
    /\ pc' = next
    /\ UNCHANGED <<Inputs, options, image_list_path, match_list_path, match_type,
                   reader_options, verified, app, opengl_thread, status>>

\* feature.cc:114: then the QApplication
DestroyApp ==
    /\ pc = "unwind_app"
    /\ IF app = "alive"
       THEN /\ app' = "destroyed"
            /\ log' = Append(log, "~QApplication")
       ELSE UNCHANGED <<app, log>>
    /\ pc' = "done"
    /\ UNCHANGED <<Inputs, options, image_list_path, match_list_path, match_type,
                   reader_options, verified, worker, opengl_thread, status>>

\* the statements every entry point with a GPU branch ends with
RunAndReturn ==
    \/ Execute
    \/ Wait
    \/ Join
    \/ Return
    \/ DestroyWorker("unwind_app")
    \/ DestroyApp

(***************************************************************************)
(* The entry points.                                                       *)
(***************************************************************************)
RunFeatureExtractor ==
    /\ entry = "RunFeatureExtractor"
    /\ \/ ParseOptions("read_list")
       \/ ReadImageList("check_model")
       \/ CheckCameraModel("verify")
       \/ VerifyStep("create_app")
       \/ CreateApp("construct")
       \/ Construct(NewThread("SiftFeatureExtractor", reader_options.image_list,
                              "", "", FALSE, options.use_gpu))
       \/ RunAndReturn

RunFeatureImporter ==
    /\ entry = "RunFeatureImporter"
    /\ \/ ParseOptions("read_list")
       \/ ReadImageList("verify")
       \/ VerifyStep("construct")
       \/ Construct(NewThread("FeatureImporter", reader_options.image_list,
                              argv.import_path, "", FALSE, FALSE))
       \/ StartDirect
       \/ Wait
       \/ Return
       \/ DestroyWorker("done")

\* DirectMatcher that returns without running the Thread it constructed
DirectMatcherNoRun(kind) ==
    \/ ParseOptions("create_app")
    \/ CreateApp("construct")
    \/ Construct(NewThread(kind, <<>>, "", "", FALSE, options.use_gpu))
    \/ /\ pc = "execute"
       /\ pc' = "return"
       /\ UNCHANGED <<Inputs, options, image_list_path, match_list_path,
                      match_type, reader_options, verified, app, worker,
                      opengl_thread, status, log>>
    \/ Return
    \/ DestroyWorker("unwind_app")
    \/ DestroyApp

\* feature.cc:151-174 and its four copies
DirectMatcher(kind) ==
    \/ ParseOptions("create_app")
    \/ CreateApp("construct")
    \/ Construct(NewThread(kind, <<>>, "", "", FALSE, options.use_gpu))
    \/ RunAndReturn

RunExhaustiveMatcher ==
    /\ entry = "RunExhaustiveMatcher"
    /\ DirectMatcher("ExhaustiveFeatureMatcher")

\* ResolveMatchType with the verification flag of "raw" and "inliers" swapped
ResolveMatchTypeSwapped ==
    /\ pc = "construct"
    /\ IF match_type = "pairs"
       THEN /\ worker' = NewThread("ImagePairsFeatureMatcher", <<>>, "",
                                   match_list_path, FALSE, options.use_gpu)
            /\ pc' = "execute"
            /\ log' = log \o <<"validated", "construct">>
            /\ UNCHANGED status
       ELSE IF match_type = "raw" \/ match_type = "inliers"
       THEN /\ worker' = NewThread("FeaturePairsFeatureMatcher", <<>>, "",
                                   match_list_path, match_type = "inliers",
                                   options.use_gpu)
            /\ pc' = "execute"
            /\ log' = log \o <<"validated", "construct">>
            /\ UNCHANGED status
       ELSE /\ status' = "EXIT_FAILURE"
            /\ pc' = "unwind_worker"
            /\ log' = log \o <<"ERROR: Invalid match_type", "return">>
            /\ UNCHANGED worker
    /\ UNCHANGED <<Inputs, options, image_list_path, match_list_path, match_type,
                   reader_options, verified, app, opengl_thread>>

\* ResolveMatchType whose "inliers" Thread is not given the match list path
ResolveMatchTypeInliersNoPath ==
    /\ pc = "construct"
    /\ IF match_type = "pairs"
       THEN /\ worker' = NewThread("ImagePairsFeatureMatcher", <<>>, "",
                                   match_list_path, FALSE, options.use_gpu)
            /\ pc' = "execute"
            /\ log' = log \o <<"validated", "construct">>
            /\ UNCHANGED status
       ELSE IF match_type = "raw" \/ match_type = "inliers"
       THEN /\ worker' = NewThread("FeaturePairsFeatureMatcher", <<>>, "",
                                   IF match_type = "raw" THEN match_list_path
                                   ELSE "",
                                   match_type = "raw", options.use_gpu)
            /\ pc' = "execute"
            /\ log' = log \o <<"validated", "construct">>
            /\ UNCHANGED status
       ELSE /\ status' = "EXIT_FAILURE"
            /\ pc' = "unwind_worker"
            /\ log' = log \o <<"ERROR: Invalid match_type", "return">>
            /\ UNCHANGED worker
    /\ UNCHANGED <<Inputs, options, image_list_path, match_list_path, match_type,
                   reader_options, verified, app, opengl_thread>>

\* feature.cc:193-208: the Thread chosen by match_type, or the failure return
ResolveMatchType ==
    /\ pc = "construct"
    /\ IF match_type = "pairs"
       THEN /\ worker' = NewThread("ImagePairsFeatureMatcher", <<>>, "",
                                   match_list_path, FALSE, options.use_gpu)
            /\ pc' = "execute"
            /\ log' = log \o <<"validated", "construct">>
            /\ UNCHANGED status
       ELSE IF match_type = "raw" \/ match_type = "inliers"
       THEN /\ worker' = NewThread("FeaturePairsFeatureMatcher", <<>>, "",
                                   match_list_path, match_type = "raw",
                                   options.use_gpu)
            /\ pc' = "execute"
            /\ log' = log \o <<"validated", "construct">>
            /\ UNCHANGED status
       ELSE /\ status' = "EXIT_FAILURE"
            /\ pc' = "unwind_worker"
            /\ log' = log \o <<"ERROR: Invalid match_type", "return">>
            /\ UNCHANGED worker
    /\ UNCHANGED <<Inputs, options, image_list_path, match_list_path, match_type,
                   reader_options, verified, app, opengl_thread>>

RunMatchesImporter ==
    /\ entry = "RunMatchesImporter"
    /\ \/ ParseOptions("create_app")
       \/ CreateApp("construct")
       \/ ResolveMatchType
       \/ RunAndReturn

RunSequentialMatcher ==
    /\ entry = "RunSequentialMatcher"
    /\ DirectMatcher("SequentialFeatureMatcher")

RunSpatialMatcher ==
    /\ entry = "RunSpatialMatcher"
    /\ DirectMatcher("SpatialFeatureMatcher")

RunTransitiveMatcher ==
    /\ entry = "RunTransitiveMatcher"
    /\ DirectMatcher("TransitiveFeatureMatcher")

RunVocabTreeMatcher ==
    /\ entry = "RunVocabTreeMatcher"
    /\ DirectMatcher("VocabTreeFeatureMatcher")

(***************************************************************************)
(* The other threads of an invocation.                                     *)
(***************************************************************************)
\* the thread of RunThreadWithOpenGLContext: Start() then Wait() on the Thread
RunThreadWithOpenGLContext ==
    \/ /\ opengl_thread = "spawned"
       /\ worker' = ThreadStart(worker, "opengl")
       /\ opengl_thread' = "waiting"
       /\ log' = Append(log, "Start")
       /\ UNCHANGED <<Inputs, pc, options, image_list_path, match_list_path,
                      match_type, reader_options, verified, app, status>>
    \/ /\ opengl_thread = "waiting"
       /\ worker.state \in Terminal
       /\ opengl_thread' = "finished"
       /\ log' = Append(log, "Wait")
       /\ UNCHANGED <<Inputs, pc, options, image_list_path, match_list_path,
                      match_type, reader_options, verified, app, worker, status>>

\* the Thread's own run: it ends Completed or Failed
ThreadRun ==
    /\ worker.state = "Running"
    /\ \E end \in Terminal :
          /\ worker' = [worker EXCEPT !.state = end]
          /\ log' = Append(log, end)
    /\ UNCHANGED <<Inputs, pc, options, image_list_path, match_list_path,
                   match_type, reader_options, verified, app, opengl_thread,
                   status>>

Next ==
    \/ RunFeatureExtractor
    \/ RunFeatureImporter
    \/ RunExhaustiveMatcher
    \/ RunMatchesImporter
    \/ RunSequentialMatcher
    \/ RunSpatialMatcher
    \/ RunTransitiveMatcher
    \/ RunVocabTreeMatcher
    \/ RunThreadWithOpenGLContext
    \/ ThreadRun

Spec == Init /\ [][Next]_vars

\* the steps the invoking thread takes
InvokingThread ==
    \/ RunFeatureExtractor
    \/ RunFeatureImporter
    \/ RunExhaustiveMatcher
    \/ RunMatchesImporter
    \/ RunSequentialMatcher
    \/ RunSpatialMatcher
    \/ RunTransitiveMatcher
    \/ RunVocabTreeMatcher

\* every thread that can take a step is scheduled, and a started Thread ends
SpecLive ==
    /\ Init
    /\ [][Next]_vars
    /\ WF_vars(InvokingThread)
    /\ WF_vars(RunThreadWithOpenGLContext)
    /\ WF_vars(ThreadRun)

(***************************************************************************)
(* VerifyCameraParams on its own, over every string of the alphabet.       *)
(***************************************************************************)
InitVerify ==
    /\ entry = "VerifyCameraParams"
    /\ kUseOpenGL = FALSE
    /\ argv \in {[NoArgs EXCEPT !.camera_model = m, !.camera_params = p] :
                    m \in CameraModelNames, p \in StringsUpTo(MaxParamsLen)}
    /\ fs = NoFiles
    /\ pc = "call"
    /\ InitLocals

CallVerifyCameraParams ==
    /\ pc = "call"
    /\ verified' = BoolName(VerifyCameraParams(argv.camera_model,
                                                argv.camera_params))
    /\ log' = VerifyCameraParamsCerr(argv.camera_model, argv.camera_params)
    /\ pc' = "done"
    /\ UNCHANGED <<Inputs, options, image_list_path, match_list_path, match_type,
                   reader_options, app, worker, opengl_thread, status>>

NextVerify == CallVerifyCameraParams

SpecVerify == InitVerify /\ [][NextVerify]_vars

(***************************************************************************)
(* Vocabulary of the properties.                                           *)
(***************************************************************************)
ImageEntries == {"RunFeatureExtractor", "RunFeatureImporter"}

ValidatingEntries == ImageEntries \cup {"RunMatchesImporter"}

Done == pc = "done"

Success == status = "EXIT_SUCCESS"

Failure == status = "EXIT_FAILURE"

Events == {log[i] : i \in DOMAIN log}

\* event a occurs somewhere before position i of the log
Earlier(a, i) == \E k \in 1..(i - 1) : log[k] = a

GpuRequested == argv.use_gpu /\ kUseOpenGL

ParsedParams == CSVToVector(argv.camera_params)

UnknownCameraModel ==
    /\ entry \in ImageEntries
    /\ ~ExistsCameraModelWithName(argv.camera_model)

\* a non-empty list of camera parameters that the registry rejects
InvalidCameraParams ==
    /\ entry \in ImageEntries
    /\ ExistsCameraModelWithName(argv.camera_model)
    /\ Len(ParsedParams) > 0
    /\ ~CameraModelVerifyParams(CameraModelNameToId(argv.camera_model),
                                ParsedParams)

UnknownMatchType ==
    /\ entry = "RunMatchesImporter"
    /\ argv.match_type \notin {Unset, "pairs", "raw", "inliers"}

ConfigError == UnknownCameraModel \/ InvalidCameraParams \/ UnknownMatchType

\* the image or pair set the invocation would work on
ResolvedEmpty ==
    CASE entry \in ImageEntries ->
            IF argv.image_list_path # "" THEN fs.image_list_file = <<>>
            ELSE fs.image_dir = {}
      [] entry = "RunMatchesImporter" -> fs.match_list_file = <<>>
      [] OTHER -> FALSE

EmptyListFile ==
    /\ entry \in ImageEntries
    /\ argv.image_list_path # ""
    /\ fs.image_list_file = <<>>

\* the invocation has handed its Thread to one of the two execution paths
Executing == worker.thread # "none" \/ opengl_thread # "none"

OnContextThread == opengl_thread # "none" /\ worker.thread # "main"

C2_FailureOnConfigError ==
    Done /\ ConfigError => ~Success

(***************************************************************************)
(* C3: the status returned after running a Thread follows the Thread's     *)
(* terminal state: Failed gives a non-zero status, and 0 is returned only  *)
(* when the Thread ended Completed.                                        *)
(***************************************************************************)
C3_StatusFromWorker ==
    Done /\ worker.state \in Terminal =>
        /\ worker.state = "Failed" => ~Success
        /\ Success => worker.state = "Completed"

C5_MatchTypeSelectsWorker ==
    entry = "RunMatchesImporter" /\ pc \notin {"parse", "create_app", "construct"} =>
        LET t == IF argv.match_type = Unset THEN "pairs" ELSE argv.match_type
        IN  /\ t = "pairs" =>
                /\ worker.kind = "ImagePairsFeatureMatcher"
                /\ worker.match_list_path = argv.match_list_path
            /\ t = "raw" =>
                /\ worker.kind = "FeaturePairsFeatureMatcher"
                /\ worker.verify_matches
                /\ worker.match_list_path = argv.match_list_path
            /\ t = "inliers" =>
                /\ worker.kind = "FeaturePairsFeatureMatcher"
                /\ ~worker.verify_matches
                /\ worker.match_list_path = argv.match_list_path
            /\ t \notin {"pairs", "raw", "inliers"} =>
                /\ worker = NoWorker
                /\ Failure

C5_Witness ==
    /\ entry = "RunMatchesImporter"
    /\ Done
    /\ argv.match_type = "raw"
    /\ worker.kind = "FeaturePairsFeatureMatcher"
    /\ worker.verify_matches
    /\ worker.state \in Terminal

(***************************************************************************)
(* C6 as stated: in every entry point that reaches execution, the Thread   *)
(* runs on the OpenGL context thread exactly when use_gpu is set and the   *)
(* build has kUseOpenGL; otherwise it is started on the invoking thread    *)
(* and no QApplication exists.                                             *)
(***************************************************************************)
C6_GpuPathIff ==
    Executing =>
        /\ OnContextThread <=> GpuRequested
        /\ ~GpuRequested => worker.thread = "main" /\ app = "null"

(***************************************************************************)
(* C6 amended: the same for every entry point but RunFeatureImporter,      *)
(* which has no GPU branch: it always starts its Thread on the invoking    *)
(* thread and creates no QApplication, whatever use_gpu and kUseOpenGL are. *)
(***************************************************************************)
C6_GpuPathIffExceptImporter ==
    Executing =>
        IF entry = "RunFeatureImporter"
        THEN /\ worker.thread = "main"
             /\ opengl_thread = "none"
             /\ app = "null"
        ELSE /\ OnContextThread <=> GpuRequested
             /\ GpuRequested => app # "null"
             /\ ~GpuRequested =>
                   /\ worker.thread = "main"
                   /\ opengl_thread = "none"
                   /\ app = "null"

C6_Witness ==
    /\ entry = "RunFeatureExtractor"
    /\ GpuRequested
    /\ worker.thread = "opengl"
    /\ worker.state = "Running"
    /\ app = "alive"

C8_ContextAfterValidation ==
    /\ ConfigError => app = "null"
    /\ \A i \in DOMAIN log :
          log[i] = "QApplication" /\ entry \in ValidatingEntries =>
              Earlier("validated", i)

(***************************************************************************)
(* C9: in every invocation the validation of the entry point has completed *)
(* with success before the Thread is constructed, and the Thread is        *)
(* constructed before Start() is called on it.                             *)
(***************************************************************************)
C9_ValidateConstructStart ==
    /\ \A i \in DOMAIN log :
          /\ log[i] = "construct" /\ entry \in ValidatingEntries =>
                Earlier("validated", i)
          /\ log[i] = "Start" => Earlier("construct", i)
    /\ worker.kind # "null" =>
          /\ "construct" \in Events
          /\ ~ConfigError
          /\ entry \in ImageEntries => verified = "true"
    /\ worker.thread # "none" => worker.kind # "null"

C9_Witness ==
    /\ entry = "RunFeatureExtractor"
    /\ Done
    /\ verified = "true"
    /\ worker.state \in Terminal
    /\ log[Len(log)] = "~Thread" \/ log[Len(log)] = "~QApplication"

(***************************************************************************)
(* C10: on the GPU path the QApplication exists before the Thread is       *)
(* started and while it is Running; it is destroyed only after the Thread  *)
(* has ended Completed or Failed and after the Thread object is destroyed. *)
(***************************************************************************)
C10_ContextOutlivesWorker ==
    /\ opengl_thread \in {"spawned", "waiting", "finished"} => app = "alive"
    /\ OnContextThread /\ worker.state = "Running" => app = "alive"
    /\ \A i \in DOMAIN log :
          /\ log[i] = "Start" /\ OnContextThread => Earlier("QApplication", i)
          /\ log[i] = "~QApplication" /\ worker.kind # "null" =>
                /\ Earlier("Completed", i) \/ Earlier("Failed", i)
                /\ Earlier("~Thread", i)
    /\ app = "destroyed" /\ worker.kind # "null" =>
          /\ worker.state \in Terminal
          /\ ~worker.alive

C10_Witness ==
    /\ app = "destroyed"
    /\ worker.thread = "opengl"
    /\ worker.state \in Terminal
    /\ ~worker.alive

\* how often event e occurs in the log
Count(e) == Cardinality({i \in DOMAIN log : log[i] = e})

Returning == pc \in {"return", "unwind_worker", "unwind_app", "done"}

(***************************************************************************)
(* C11: Wait() is called only after Start(), once per Start(), and the     *)
(* only thing that happens between the two is the Thread's own end; the    *)
(* entry point does not return while the Thread is Running, and every      *)
(* return after a Start() finds the Thread Completed or Failed.            *)
(***************************************************************************)
C11_WaitFollowsStart ==
    /\ Count("Start") <= 1
    /\ Count("Wait") <= Count("Start")
    /\ \A i \in DOMAIN log :
          /\ log[i] = "Wait" =>
                /\ i > 2
                /\ log[i - 1] \in Terminal
                /\ log[i - 2] = "Start"
          /\ log[i] = "return" /\ Earlier("Start", i) => Earlier("Wait", i)
    /\ worker.state = "Running" =>
          /\ pc \in {"wait", "join"}
          /\ status = "none"
    /\ Returning /\ "Start" \in Events =>
          /\ Count("Wait") = 1
          /\ worker.state \in Terminal

C11_Witness ==
    /\ Done
    /\ Count("Start") = 1
    /\ Count("Wait") = 1
    /\ worker.thread = "main"
    /\ worker.state = "Failed"

\* the Thread classes of feature.cc
WorkerKinds ==
    {"SiftFeatureExtractor", "FeatureImporter", "ExhaustiveFeatureMatcher",
     "ImagePairsFeatureMatcher", "FeaturePairsFeatureMatcher",
     "SequentialFeatureMatcher", "SpatialFeatureMatcher",
     "TransitiveFeatureMatcher", "VocabTreeFeatureMatcher"}

(***************************************************************************)
(* C12: an invocation constructs at most one Thread and has at most one    *)
(* Running; an invocation without a configuration error whose list file,   *)
(* if given, is not empty ends having constructed exactly one Thread, of   *)
(* one class, and neither the class nor the configuration of a constructed  *)
(* Thread changes afterwards.                                              *)
(***************************************************************************)
C12_ExactlyOneWorker ==
    /\ [](/\ Count("construct") <= 1
          /\ Count("Start") <= 1
          /\ Count("construct") = 1 <=> worker.kind \in WorkerKinds
          /\ Count("construct") = 0 <=> worker = NoWorker
          /\ Done /\ ~ConfigError /\ ~EmptyListFile => Count("construct") = 1)
    /\ [][worker.kind # "null" =>
             /\ worker'.kind = worker.kind
             /\ worker'.image_list = worker.image_list
             /\ worker'.import_path = worker.import_path
             /\ worker'.match_list_path = worker.match_list_path
             /\ worker'.verify_matches = worker.verify_matches
             /\ worker'.use_gpu = worker.use_gpu]_vars

C12_Witness ==
    /\ entry = "RunMatchesImporter"
    /\ Done
    /\ Count("construct") = 1
    /\ worker.kind = "FeaturePairsFeatureMatcher"
    /\ worker.state \in Terminal

\* the threads of the invocation that are executing or blocked
LiveContexts ==
    {"invoking"} \cup
    (IF opengl_thread \in {"spawned", "waiting", "finished"}
     THEN {"opengl"} ELSE {})

(***************************************************************************)
(* C13: an invocation has at most two threads of its own, the invoking     *)
(* thread and, only on the GPU path, one context thread; while the context *)
(* thread executes Start() and Wait() the invoking thread is blocked in    *)
(* RunThreadWithOpenGLContext and takes no step until that thread is done. *)
(***************************************************************************)
C13_InvokingThreadBlocked ==
    /\ [](/\ Cardinality(LiveContexts) <= 2
          /\ opengl_thread # "none" =>
                /\ GpuRequested
                /\ entry # "RunFeatureImporter"
                /\ Count("RunThreadWithOpenGLContext") = 1
          /\ worker.thread = "opengl" => opengl_thread # "none"
          /\ opengl_thread \in {"spawned", "waiting", "finished"} => pc = "join"
          /\ opengl_thread = "joined" => worker.state \in Terminal)
    /\ [][(opengl_thread \in {"spawned", "waiting"}) =>
             (pc' = pc /\ status' = status /\ app' = app)]_vars

C13_Witness ==
    /\ opengl_thread = "waiting"
    /\ worker.state = "Running"
    /\ worker.thread = "opengl"
    /\ pc = "join"

(***************************************************************************)
(* C14: an invocation creates at most one QApplication, and every          *)
(* QApplication it creates has executed exactly one Thread on the context  *)
(* thread by the time the invocation returns.                              *)
(***************************************************************************)
C14_ContextUsedOnce ==
    /\ Count("QApplication") <= 1
    /\ Done /\ app # "null" =>
          /\ Count("RunThreadWithOpenGLContext") = 1
          /\ Count("Start") = 1
          /\ worker.thread = "opengl"
          /\ worker.state \in Terminal

(***************************************************************************)
(* RunMatchesImporter invoked twice: with match_type "raw", then with      *)
(* "inliers" and every other argument, file and build switch the same.     *)
(***************************************************************************)
InitPair ==
    /\ entry = "RunMatchesImporter"
    /\ kUseOpenGL \in BOOLEAN
    /\ argv \in {a \in ArgsOf(entry) : a.match_type = "raw"}
    /\ fs \in FilesOf(entry)
    /\ pc = "parse"
    /\ InitLocals

\* the first process has exited; the second one starts
InvokeAgain ==
    /\ pc = "done"
    /\ previous = NoPrevious
    /\ previous' = [status |-> status, worker |-> worker, log |-> log]
    /\ argv' = [argv EXCEPT !.match_type = "inliers"]
    /\ pc' = "parse"
    /\ options' = NoOptions
    /\ image_list_path' = ""
    /\ match_list_path' = ""
    /\ match_type' = "pairs"
    /\ reader_options' = [image_list |-> <<>>]
    /\ verified' = "none"
    /\ app' = "null"
    /\ worker' = NoWorker
    /\ opengl_thread' = "none"
    /\ status' = "none"
    /\ log' = <<>>
    /\ UNCHANGED <<entry, kUseOpenGL, fs>>

NextPair ==
    \/ RunMatchesImporter
    \/ RunThreadWithOpenGLContext
    \/ ThreadRun
    \/ InvokeAgain

SpecPair == InitPair /\ [][NextPair]_vars

\* a Thread without its verification flag and without how far it has run
SameButVerify(w) == [w EXCEPT !.verify_matches = FALSE, !.state = "any"]

\* the events of an invocation without the end the Thread happened to take
PathOf(l) == SelectSeq(l, LAMBDA e : e \notin Terminal)

(***************************************************************************)
(* C15 (under SpecPair): RunMatchesImporter invoked with match_type "raw"  *)
(* and then with "inliers", the match list path, the matching options and  *)
(* the files being the same, returns success both times, constructs a      *)
(* FeaturePairsFeatureMatcher with the same configuration both times,      *)
(* takes the same execution path, and the two Threads differ only in       *)
(* verify_matches: set for "raw", cleared for "inliers".                   *)
(***************************************************************************)
C15_RawAndInliersDifferInVerifyOnly ==
    Done /\ previous # NoPrevious =>
        /\ previous.status = "EXIT_SUCCESS"
        /\ Success
        /\ previous.worker.kind = "FeaturePairsFeatureMatcher"
        /\ worker.kind = "FeaturePairsFeatureMatcher"
        /\ SameButVerify(previous.worker) = SameButVerify(worker)
        /\ worker.match_list_path = argv.match_list_path
        /\ previous.worker.verify_matches
        /\ ~worker.verify_matches
        /\ PathOf(previous.log) = PathOf(log)

C15_Witness ==
    /\ Done
    /\ previous # NoPrevious
    /\ argv.match_type = "inliers"
    /\ worker.thread = "opengl"
    /\ previous.worker.thread = "opengl"
    /\ ~worker.verify_matches

\* the invoking thread is at Wait() or inside RunThreadWithOpenGLContext
Blocked == pc \in {"wait", "join"}

(***************************************************************************)
(* C16 (under SpecLive): when every thread that can step is scheduled and  *)
(* a started Thread reaches a terminal state, every invocation of every    *)
(* entry point eventually returns; an invocation with a configuration      *)
(* error or with an image list file without lines never reaches Wait() or  *)
(* RunThreadWithOpenGLContext, the only two places where it blocks.        *)
(***************************************************************************)
C16_EventuallyReturns ==
    /\ <>(Done /\ status \in {"EXIT_SUCCESS", "EXIT_FAILURE"})
    /\ [](ConfigError \/ EmptyListFile => ~Blocked /\ ~Executing)
    /\ [](Blocked /\ worker.state \notin Terminal =>
              worker.state = "Running" \/ opengl_thread = "spawned")

C16_Witness ==
    /\ Done
    /\ "joined" \in Events
    /\ worker.state \in Terminal
    /\ Success

\* the entry points with the branch on use_gpu && kUseOpenGL
GpuEntries == EntryPoints \ {"RunFeatureImporter"}

(***************************************************************************)
(* C17: in every entry point with a GPU path the condition use_gpu &&      *)
(* kUseOpenGL is evaluated at the creation of the QApplication and again   *)
(* at the choice of the execution path; the options are not written after  *)
(* Parse, so both evaluations agree: once the Thread is handed to an       *)
(* execution path it is on the context thread exactly when a QApplication  *)
(* was created, never on the context thread without a QApplication and     *)
(* never started directly while a QApplication exists.                     *)
(***************************************************************************)
C17_GpuConditionAgrees ==
    /\ [](entry \in GpuEntries =>
            /\ pc \in {"construct", "execute"} =>
                   (UseGpuContextForRun <=> app = "alive")
            /\ pc \in {"construct", "execute"} =>
                   (UseGpuContext <=> UseGpuContextForRun)
            /\ Executing => (OnContextThread <=> app # "null")
            /\ opengl_thread # "none" => "QApplication" \in Events
            /\ worker.thread = "opengl" => "QApplication" \in Events
            /\ worker.thread = "main" =>
                   app = "null" /\ "QApplication" \notin Events)
    /\ [][(pc # "parse") => (options' = options /\ kUseOpenGL' = kUseOpenGL)]_vars
    /\ [][(worker.kind # "null") => (worker'.use_gpu = worker.use_gpu)]_vars

C17_Witness ==
    /\ entry = "RunVocabTreeMatcher"
    /\ pc = "execute"
    /\ UseGpuContext
    /\ UseGpuContextForRun
    /\ app = "alive"
    /\ worker.kind = "VocabTreeFeatureMatcher"

(***************************************************************************)
(* C18: RunExhaustiveMatcher, RunSequentialMatcher, RunSpatialMatcher,     *)
(* RunTransitiveMatcher and RunVocabTreeMatcher validate no camera, read   *)
(* no list and never return failure: each invocation constructs exactly    *)
(* one Thread, runs it to Completed or Failed before it returns, and       *)
(* returns EXIT_SUCCESS.                                                   *)
(***************************************************************************)
C18_DirectMatchersAlwaysRun ==
    entry \in DirectMatchers =>
        /\ status # "EXIT_FAILURE"
        /\ verified = "none"
        /\ "validated" \notin Events
        /\ "ReadTextFileLines" \notin Events
        /\ \A i \in DOMAIN log : log[i] \notin {"ERROR: Invalid match_type"}
        /\ Count("construct") <= 1
        /\ Returning =>
              /\ Count("construct") = 1
              /\ Count("Start") = 1
              /\ worker.kind \in WorkerKinds
              /\ worker.state \in Terminal
        /\ status # "none" => Success
        /\ Done => Success

C18_Witness ==
    /\ entry = "RunSpatialMatcher"
    /\ Done
    /\ Success
    /\ worker.kind = "SpatialFeatureMatcher"
    /\ worker.state = "Failed"
    /\ Count("construct") = 1

====
